---- MODULE Spec2Model ----
(***************************************************************************)
(* Word Scramble (src/wordScramble.js): the normalizer, the matcher, the   *)
(* scorer, the ranker and the readline round controller of class           *)
(* WordScramble.                                                           *)
(*                                                                         *)
(* A JavaScript string is modelled as a sequence of one-character strings. *)
(* A JavaScript number is a record: NaN, or Num(n) for the integer n.       *)
(***************************************************************************)
EXTENDS Integers, Sequences, FiniteSets, TLC

VARIABLES
  pc,        \* position of the function under study: "call", "done", "again";
             \* in the round controller, the callback that ran last
  arg,       \* its argument(s); in the round controller, the letters and the
             \* bonus position of the last bonus callback
  res,       \* its result; in the round controller, matchedWords as the last
             \* bonus callback left it
  words,     \* this.words: the dictionary, a sequence of raw words
  question,  \* readline's pending question callback: "none", "letters", "bonus"
  input,     \* the letters callback's object { letters }
  output,    \* what the last callback printed
  crashed,   \* an exception left a readline callback uncaught
  calls      \* the calls the last callback made, in order

vars == <<pc, arg, res, words, question, input, output, crashed, calls>>

(***************************************************************************)
(* Bounds of the model.                                                    *)
(***************************************************************************)
MaxText == 3      \* longest raw text handed to formatWord
MaxWord == 3      \* longest canonical word handed to matchWord
MaxInput == 4     \* longest canonical input handed to matchWord
MaxBonus == 3     \* longest bonus text handed to checkBonusPosition
MaxMatched == 3   \* longest candidate list handed to rankWords
MaxDict == 2      \* longest dictionary of the round controller
MaxLetters == 3   \* longest line typed at the letters prompt

(***************************************************************************)
(* Characters.  The sets below are the model's members of the character    *)
(* classes the regular expressions of the source name.                     *)
(***************************************************************************)
Space == " "
Digits == {"0", "1", "2", "3"}                \* members of [0-9]
AsciiLower == {"a", "c", "t"}            \* members of a-z
AsciiUpper == {"A", "C", "T", "E", "S"}  \* members of A-Z
Latin1Lower == {"é", "ñ", "÷"}           \* members of à-ü (U+00E0..U+00FC)
Latin1Upper == {"É", "Ñ", "×"}           \* members of À-Ü (U+00C0..U+00DC)
Others == {"!", "-", ".", "ß", "_"}      \* members of no class above

\* String.prototype.toUpperCase, one character at a time ("ß", the one
\* character here that becomes two, is dealt with in uppercase).
toUpperCaseChar(c) ==
  CASE c = "a" -> "A"
    [] c = "c" -> "C"
    [] c = "t" -> "T"
    [] c = "é" -> "É"
    [] c = "ñ" -> "Ñ"
    [] OTHER -> c

\* assets/accentuation.json: accented letter -> unaccented letter.
accentuation == [k \in {"É"} |-> "E"]

\* assets/score.json: letter -> points.
score == [k \in {"A", "C", "T", "E"} |-> IF k = "C" THEN 3 ELSE 1]

(***************************************************************************)
(* Sequence helpers.                                                       *)
(***************************************************************************)
RECURSIVE Filter(_, _)
\* s.replace(/[class]/g, ""): the characters of s that are in keep, in order.
Filter(s, keep) ==
  IF s = <<>> THEN <<>>
  ELSE (IF Head(s) \in keep THEN <<Head(s)>> ELSE <<>>) \o Filter(Tail(s), keep)

indexOfHead(s, c, i) == IF i <= Len(s) /\ s[i] = c THEN i ELSE 0

RECURSIVE indexOf(_, _, _)
\* Array.prototype.indexOf / the first occurrence String.prototype.replace
\* finds, 1-based from position i; 0 when there is none (JavaScript's -1).
indexOf(s, c, i) ==
  IF i > Len(s) THEN 0
  ELSE IF s[i] = c THEN i
  ELSE indexOf(s, c, i + 1)

\* Array.prototype.splice(index, 1) on a 1-based sequence.
Remove(s, i) == SubSeq(s, 1, i - 1) \o SubSeq(s, i + 1, Len(s))

\* s.replace(letter, by) with a string pattern: the first occurrence only.
ReplaceFirst(s, letter, by) ==
  LET i == indexOf(s, letter, 1)
  IN IF i = 0 THEN s ELSE [s EXCEPT ![i] = by]

\* All sequences over S of length at most n.
SeqUpTo(S, n) == UNION {[1..k -> S] : k \in 0..n}

(***************************************************************************)
(* Word formatting (the Normalizer).                                       *)
(***************************************************************************)
AllChars ==
  {Space} \cup Digits \cup AsciiLower \cup AsciiUpper \cup Latin1Lower
          \cup Latin1Upper \cup Others

\* word[key].replace(/ /g, "")
removeWhitespaces(s) == Filter(s, AllChars \ {Space})

\* word[key].replace(/[0-9]+/g, "")
removeNumbers(s) == Filter(s, AllChars \ Digits)

\* word[key].replace(/[^a-zà-üA-ZÀ-Ü]+/g, "")
removeSpecialCharacters(s) ==
  Filter(s, AsciiLower \cup Latin1Lower \cup AsciiUpper \cup Latin1Upper)

RECURSIVE uppercase(_)
\* word[key].toUpperCase(); "ß" becomes "SS".
uppercase(s) ==
  IF s = <<>> THEN <<>>
  ELSE (IF Head(s) = "ß" THEN <<"S", "S">> ELSE <<toUpperCaseChar(Head(s))>>)
       \o uppercase(Tail(s))

RECURSIVE removeAccentuationFrom(_, _, _)
\* The loop of removeAccentuation: letter ranges over the string as it was
\* when the loop began (orig), the replacement acts on the current string.
removeAccentuationFrom(orig, i, cur) ==
  IF i > Len(orig) THEN cur
  ELSE LET letter == orig[i]
       IN IF letter \in DOMAIN accentuation
          THEN removeAccentuationFrom(orig, i + 1,
                                      ReplaceFirst(cur, letter, accentuation[letter]))
          ELSE removeAccentuationFrom(orig, i + 1, cur)

removeAccentuationOncePerLetter(s) ==
  IF \E i \in 1..Len(s) : s[i] \in DOMAIN accentuation
  THEN LET letter == s[CHOOSE i \in 1..Len(s) : s[i] \in DOMAIN accentuation]
       IN ReplaceFirst(s, letter, accentuation[letter])
  ELSE s

\* removeAccentuation(word, key): the value word[key] is left with.
removeAccentuation(s) == removeAccentuationFrom(s, 1, s)

\* formatWord(word, key): the value word[key] is left with.
formatWord(s) ==
  removeAccentuation(uppercase(removeSpecialCharacters(removeNumbers(removeWhitespaces(s)))))

RECURSIVE join(_)
\* array.join(', '): the items with a comma and a space between them.
join(array) ==
  IF Len(array) <= 1 THEN array
  ELSE <<Head(array), ",", Space>> \o join(Tail(array))

\* formatUnusedLetters(unused): the value unused.letters is left with, the
\* string [...unused.letters].join(', ').
formatUnusedLetters(letters) == join(letters)

(***************************************************************************)
(* The round controller's variables when a single function is studied.     *)
(***************************************************************************)
ControllerIdle ==
  /\ words = <<>>
  /\ question = "none"
  /\ input = <<>>
  /\ output = <<>>
  /\ crashed = FALSE
  /\ calls = <<>>

ControllerUnchanged ==
  UNCHANGED <<words, question, input, output, crashed, calls>>

(***************************************************************************)
(* SpecFormat: formatWord on every raw text of at most MaxText characters, *)
(* then once more on its own result.                                       *)
(***************************************************************************)
FormatChars == {Space, "1", "!", "a", "A", "é", "É", "ñ", "×", "÷", "ß"}

Texts == SeqUpTo(FormatChars, MaxText)

InitFormat ==
  /\ pc = "call"
  /\ arg \in Texts
  /\ res = <<>>
  /\ ControllerIdle

FormatWordCall ==
  /\ pc = "call"
  /\ res' = formatWord(arg)
  /\ pc' = "done"
  /\ UNCHANGED arg
  /\ ControllerUnchanged

FormatWordAgain ==
  /\ pc = "done"
  /\ arg' = res
  /\ res' = formatWord(res)
  /\ pc' = "again"
  /\ ControllerUnchanged

NextFormat == FormatWordCall \/ FormatWordAgain

SpecFormat == InitFormat /\ [][NextFormat]_vars

(***************************************************************************)
(* C5: formatWord yields only uppercase canonical letters: no whitespace,  *)
(* no digit, no punctuation or symbol, no lowercase letter and no key of   *)
(* the accent-fold table; empty text yields the empty string.              *)
(***************************************************************************)
Symbols == {"!", "-", ".", "×", "÷"}

LowercaseLetters == AsciiLower \cup (Latin1Lower \ {"÷"}) \cup {"ß"}

Range(s) == {s[i] : i \in 1..Len(s)}

C5_OnlyUppercaseLetters ==
  pc = "done" =>
    /\ Range(res) \cap ({Space} \cup Digits \cup Symbols \cup LowercaseLetters
                          \cup DOMAIN accentuation) = {}
    /\ (arg = <<>> => res = <<>>)

(***************************************************************************)
(* C6: normalization is idempotent: formatWord applied to a result of      *)
(* formatWord returns that same result.                                    *)
(***************************************************************************)
C6_Idempotent == pc = "again" => res = arg

\* A word that went through accent folding has been normalized twice.
C6_Witness == pc = "again" /\ "E" \in Range(res) /\ "A" \in Range(res)

(***************************************************************************)
(* C10: every word formatWord produces contains only keys of the letter    *)
(* score table; what cannot be mapped to such a letter is dropped.         *)
(***************************************************************************)
C10_OnlyScoredLetters == pc = "done" => Range(res) \subseteq DOMAIN score

(***************************************************************************)
(* The Matcher.                                                            *)
(***************************************************************************)
restFromLetter(in, letter) == SubSeq(in, letter, Len(in))

\* input.splice(parseInt(letter) + 1): the letters after position letter
\* (letter is 1-based here, the source's key is 0-based).
rest(in, letter) == SubSeq(in, letter + 1, Len(in))

RECURSIVE matchWordFrom(_, _, _, _)
\* The for-in loop of matchWord from key letter on, with the word array as
\* spliced so far and the unused letters pushed so far.  The field input is
\* the array input as the call leaves it: cut after key letter by
\* input.splice(parseInt(letter) + 1) on a match, whole otherwise.
matchWordFrom(word, in, letter, unused) ==
  IF letter > Len(in)
  THEN [check |-> FALSE, unused |-> [letters |-> <<>>], input |-> in]
  ELSE LET index == indexOf(word, in[letter], 1)
       IN IF index # 0
          THEN LET spliced == Remove(word, index)
               IN IF Len(spliced) = 0
                  THEN [check |-> TRUE,
                        unused |-> [letters |-> unused \o rest(in, letter)],
                        input |-> SubSeq(in, 1, letter)]
                  ELSE matchWordFrom(spliced, in, letter + 1, unused)
          ELSE matchWordFrom(word, in, letter + 1, Append(unused, in[letter]))

\* matchWord(word, input).  { check: false } carries no unused letters; the
\* model gives it an empty list that no caller reads.
matchWord(word, in) == matchWordFrom(word, in, 1, <<>>)

(***************************************************************************)
(* SpecMatch: matchWord on every canonical word of at most MaxWord letters *)
(* (the empty word included) and every non-empty canonical input of at     *)
(* most MaxInput letters.                                                  *)
(***************************************************************************)
MatchLetters == {"A", "C", "T"}

InitMatch ==
  /\ pc = "call"
  /\ arg \in [word : SeqUpTo(MatchLetters, MaxWord),
              input : SeqUpTo(MatchLetters, MaxInput) \ {<<>>}]
  /\ res = <<>>
  /\ ControllerIdle

MatchWordCall ==
  /\ pc = "call"
  /\ res' = matchWord(arg.word, arg.input)
  /\ pc' = "done"
  /\ UNCHANGED arg
  /\ ControllerUnchanged

NextMatch == MatchWordCall

SpecMatch == InitMatch /\ [][NextMatch]_vars

\* How many times c occurs in s.
Count(s, c) == Cardinality({i \in 1..Len(s) : s[i] = c})

\* Every letter of w, counted with multiplicity, occurs in l at least as often.
Contained(w, l) == \A c \in Range(w) : Count(w, c) <= Count(l, c)

RECURSIVE IsSubsequence(_, _)
\* u can be obtained from l by deleting letters, keeping the order.
IsSubsequence(u, l) ==
  IF u = <<>> THEN TRUE
  ELSE IF l = <<>> THEN FALSE
  ELSE IF Head(u) = Head(l) THEN IsSubsequence(Tail(u), Tail(l))
  ELSE IsSubsequence(u, Tail(l))

(***************************************************************************)
(* C1: for every canonical word w, the empty word included, and every      *)
(* non-empty canonical input L, matchWord returns check = true if and only *)
(* if every letter of w occurs in L with at least the same multiplicity.   *)
(***************************************************************************)
C1_CheckIffContained ==
  pc = "done" => (res.check <=> Contained(arg.word, arg.input))

(***************************************************************************)
(* C8: when matchWord succeeds, the unused letters are exactly the input   *)
(* letters not consumed: a subsequence of L in L's order (the letters      *)
(* skipped up to the exhaustion point, then every letter after it), with   *)
(* Len(L) - Len(w) elements, and w's letters plus the unused letters are   *)
(* L's letters as multisets.                                               *)
(***************************************************************************)
C8_UnusedAreTheLettersNotConsumed ==
  (pc = "done" /\ res.check) =>
    LET u == res.unused.letters
        w == arg.word
        l == arg.input
    IN /\ IsSubsequence(u, l)
       /\ Len(u) = Len(l) - Len(w)
       /\ \A c \in MatchLetters : Count(w, c) + Count(u, c) = Count(l, c)
       /\ \E k \in 1..Len(l) :
            LET skipped == Len(u) - (Len(l) - k)
            IN /\ skipped >= 0
               /\ SubSeq(u, skipped + 1, Len(u)) = SubSeq(l, k + 1, Len(l))
               /\ IsSubsequence(SubSeq(u, 1, skipped), SubSeq(l, 1, k))
               /\ \A c \in MatchLetters :
                    Count(w, c) + Count(SubSeq(u, 1, skipped), c)
                      = Count(SubSeq(l, 1, k), c)

\* A match with a letter skipped before the exhaustion point and a letter
\* left after it.
C8_Witness ==
  /\ pc = "done"
  /\ res.check
  /\ arg.word = <<"C", "A">>
  /\ arg.input = <<"T", "A", "C", "A">>
  /\ res.unused.letters = <<"T", "A">>

(***************************************************************************)
(* JavaScript numbers and the two string-to-number conversions of          *)
(* checkBonusPosition.  The bonus text is typed over BonusChars, so the    *)
(* exponent, hexadecimal and Infinity forms of a numeric string cannot be  *)
(* written; "a" stands for any character that is no part of a number.      *)
(***************************************************************************)
NaN == [nan |-> TRUE, v |-> 0]

Num(n) == [nan |-> FALSE, v |-> n]

\* a + b, a * 2, a - b: NaN when an operand is NaN (or undefined).
Plus(a, b) == IF a.nan \/ b.nan THEN NaN ELSE Num(a.v + b.v)

Twice(a) == IF a.nan THEN NaN ELSE Num(a.v * 2)

Minus(a, b) == IF a.nan \/ b.nan THEN NaN ELSE Num(a.v - b.v)

\* a === b on numbers: NaN equals nothing, itself included.
StrictEquals(a, b) == ~a.nan /\ ~b.nan /\ a.v = b.v

DigitValue(c) == CASE c = "0" -> 0 [] c = "1" -> 1 [] c = "2" -> 2 [] c = "3" -> 3

RECURSIVE DigitPrefix(_)
\* The longest prefix of s made of digits.
DigitPrefix(s) ==
  IF s = <<>> \/ Head(s) \notin Digits THEN <<>>
  ELSE <<Head(s)>> \o DigitPrefix(Tail(s))

RECURSIVE Decimal(_)
\* The value of a sequence of digits.
Decimal(ds) ==
  IF ds = <<>> THEN 0
  ELSE 10 * Decimal(SubSeq(ds, 1, Len(ds) - 1)) + DigitValue(ds[Len(ds)])

HasSign(s) == s # <<>> /\ Head(s) \in {"-", "+"}

Unsigned(s) == IF HasSign(s) THEN Tail(s) ELSE s

\* parseInt(s) for a string without leading white space: an optional sign,
\* then the longest run of digits; NaN when that run is empty.
parseInt(s) ==
  LET ds == DigitPrefix(Unsigned(s))
  IN IF ds = <<>> THEN NaN
     ELSE IF HasSign(s) /\ Head(s) = "-" THEN Num(0 - Decimal(ds))
     ELSE Num(Decimal(ds))

\* The integer and fraction digits of an unsigned decimal literal, or
\* [ok |-> FALSE] when u is none: digits, digits "." digits?, "." digits.
DecimalParts(u) ==
  LET int == DigitPrefix(u)
      after == SubSeq(u, Len(int) + 1, Len(u))
  IN IF after = <<>>
     THEN [ok |-> int # <<>>, int |-> int, frac |-> <<>>]
     ELSE LET frac == DigitPrefix(Tail(after))
          IN [ok |-> /\ Head(after) = "."
                     /\ Len(frac) = Len(after) - 1
                     /\ (int # <<>> \/ frac # <<>>),
              int |-> int, frac |-> frac]

\* isNaN(s) for a string without white space: Number(s) is NaN unless s is
\* empty (Number("") is 0) or an optionally signed decimal literal.
isNaN(s) == s # <<>> /\ ~DecimalParts(Unsigned(s)).ok

(***************************************************************************)
(* Bonus position.                                                         *)
(***************************************************************************)
checkBonusPositionAnyNumber(position) == ~isNaN(removeWhitespaces(position))

\* checkBonusPosition(bonus): bonus.position loses its spaces, and the
\* result is !isNaN(bonus.position) && parseInt(bonus.position) >= 0.
checkBonusPosition(position) ==
  LET stripped == removeWhitespaces(position)
  IN ~isNaN(stripped) /\ ~parseInt(stripped).nan /\ parseInt(stripped).v >= 0

(***************************************************************************)
(* SpecBonus: checkBonusPosition on every bonus text of at most MaxBonus   *)
(* characters.                                                             *)
(***************************************************************************)
BonusChars == {"0", "1", "2", "3", "-", ".", "a", Space}

BonusTexts == SeqUpTo(BonusChars, MaxBonus)

InitBonus ==
  /\ pc = "call"
  /\ arg \in BonusTexts
  /\ res = FALSE
  /\ ControllerIdle

CheckBonusPositionCall ==
  /\ pc = "call"
  /\ res' = checkBonusPosition(arg)
  /\ pc' = "done"
  /\ UNCHANGED arg
  /\ ControllerUnchanged

NextBonus == CheckBonusPositionCall

SpecBonus == InitBonus /\ [][NextBonus]_vars

\* The text denotes a number that is an integer and is not negative.
NonNegativeInteger(s) ==
  LET parts == DecimalParts(Unsigned(s))
      zero(ds) == \A i \in 1..Len(ds) : ds[i] = "0"
  IN /\ s # <<>>
     /\ parts.ok
     /\ zero(parts.frac)
     /\ ((HasSign(s) /\ Head(s) = "-") => zero(parts.int))

(***************************************************************************)
(* C7: checkBonusPosition accepts the bonus text only if, after white      *)
(* space removal, it is a non-negative integer; empty text, a negative     *)
(* number, a non-integer number such as 1.5 or -0.5 and non-numeric text   *)
(* are rejected.                                                           *)
(***************************************************************************)
C7_AcceptsOnlyNonNegativeIntegers ==
  pc = "done" => (res => NonNegativeInteger(removeWhitespaces(arg)))

(***************************************************************************)
(* The Scorer.                                                             *)
(***************************************************************************)
isBonusIndexZeroBased(index, position) ==
  StrictEquals(Num(index), parseInt(position))

isBonusIndexUpTo(index, position) ==
  ~parseInt(position).nan /\ index + 1 <= parseInt(position).v

\* parseInt(++index) === parseInt(bonus.position), index being the 0-based
\* key of the letter the loop is at.
isBonusIndex(index, position) ==
  StrictEquals(Num(index + 1), parseInt(position))

\* this.score[letter]: undefined for a letter the table lacks, which the
\* arithmetic that follows turns into NaN.
letterScoreOf(letter) ==
  IF letter \in DOMAIN score THEN Num(score[letter]) ELSE NaN

RECURSIVE scoreWordFrom(_, _, _, _)
\* The inner for-in loop of scoreWords from 0-based key index on, sum being
\* the local variable score.
scoreWordFrom(word, position, index, sum) ==
  IF index >= Len(word) THEN sum
  ELSE LET letterScore == letterScoreOf(word[index + 1])
       IN scoreWordFrom(word, position, index + 1,
            Plus(sum, IF isBonusIndex(index, position)
                      THEN Twice(letterScore)
                      ELSE letterScore))

\* scoreWords(matchedWords, bonus): every match gets its score.
scoreWords(matchedWords, position) ==
  [m \in 1..Len(matchedWords) |->
     [word |-> matchedWords[m].word,
      unusedLetters |-> matchedWords[m].unusedLetters,
      score |-> scoreWordFrom(matchedWords[m].word, position, 0, Num(0))]]

(***************************************************************************)
(* SpecScore: scoreWords on every list of one or two matched words of at   *)
(* most MaxWord letters (and two words with a letter the score table       *)
(* lacks), with the accepted bonus positions listed.                       *)
(***************************************************************************)
ScoreLetters == {"A", "C", "T"}

ScoreWords ==
  (SeqUpTo(ScoreLetters, MaxWord) \ {<<>>}) \cup {<<"×">>, <<"A", "×">>}

ScorePositions ==
  {p \in {<<"0">>, <<"1">>, <<"2">>, <<"3">>, <<"0", "2">>, <<"1", "0">>,
          <<"2", ".", "1">>, <<"-", "0", ".", "2">>} : checkBonusPosition(p)}

InitScore ==
  /\ pc = "call"
  /\ arg \in [matchedWords :
                SeqUpTo([word : ScoreWords, unusedLetters : {<<>>}], 2) \ {<<>>},
              bonus : [position : ScorePositions]]
  /\ res = <<>>
  /\ ControllerIdle

ScoreWordsCall ==
  /\ pc = "call"
  /\ res' = scoreWords(arg.matchedWords, arg.bonus.position)
  /\ pc' = "done"
  /\ UNCHANGED arg
  /\ ControllerUnchanged

NextScore == ScoreWordsCall

SpecScore == InitScore /\ [][NextScore]_vars

RECURSIVE SumOfLetters(_)
\* The sum of the table values of the letters of a word the table covers.
SumOfLetters(w) ==
  IF w = <<>> THEN 0 ELSE score[Head(w)] + SumOfLetters(Tail(w))

(***************************************************************************)
(* C3: for a matched word whose letters all have an entry in the score     *)
(* table and an accepted bonus position p, the score is the sum of the     *)
(* table values of the letters plus, when 1 <= p <= Len(word), once more   *)
(* the value of the letter at 1-based position p.                          *)
(***************************************************************************)
C3_ScoreIsSumPlusBonusLetter ==
  pc = "done" =>
    \A m \in 1..Len(res) :
      LET w == arg.matchedWords[m].word
          p == parseInt(arg.bonus.position).v
      IN Range(w) \subseteq DOMAIN score =>
           /\ res[m].word = w
           /\ res[m].score =
                Num(SumOfLetters(w) + IF 1 <= p /\ p <= Len(w) THEN score[w[p]] ELSE 0)

\* "CAT" with bonus position 2: 3 + (1 * 2) + 1 = 6.
C3_Witness ==
  /\ pc = "done"
  /\ arg.bonus.position = <<"2">>
  /\ \E m \in 1..Len(res) :
       res[m].word = <<"C", "A", "T">> /\ res[m].score = Num(6)

(***************************************************************************)
(* C11: when the accepted bonus position is 0 or greater than the length   *)
(* of a matched word, no letter of the word is doubled: its score is the   *)
(* plain sum of the table values of its letters (NaN, and no exception,    *)
(* when the table lacks one of them).                                      *)
(***************************************************************************)
C11_NoBonusOutsideTheWord ==
  pc = "done" =>
    \A m \in 1..Len(res) :
      LET w == arg.matchedWords[m].word
          p == parseInt(arg.bonus.position).v
      IN (p = 0 \/ p > Len(w)) =>
           res[m].score = IF Range(w) \subseteq DOMAIN score
                          THEN Num(SumOfLetters(w))
                          ELSE NaN

\* "CA" with bonus position 3, one past its last letter: 3 + 1 = 4.
C11_Witness ==
  /\ pc = "done"
  /\ arg.bonus.position = <<"3">>
  /\ \E m \in 1..Len(res) :
       res[m].word = <<"C", "A">> /\ res[m].score = Num(4)

(***************************************************************************)
(* The Ranker.  Array.prototype.sort is stable; a comparator result that   *)
(* is NaN counts as 0.                                                     *)
(***************************************************************************)
\* The order String.prototype.localeCompare gives the canonical characters.
Collation == <<"×", "A", "C", "E", "Ñ", "T">>

RECURSIVE localeCompare(_, _)
\* a.localeCompare(b): negative, zero or positive.
localeCompare(a, b) ==
  IF a = <<>> /\ b = <<>> THEN 0
  ELSE IF a = <<>> THEN -1
  ELSE IF b = <<>> THEN 1
  ELSE IF Head(a) = Head(b) THEN localeCompare(Tail(a), Tail(b))
  ELSE IF indexOf(Collation, Head(a), 1) < indexOf(Collation, Head(b), 1) THEN -1
  ELSE 1

\* The comparators of sortWordsByScore, sortWordsByLength and
\* sortWordsAlphabetically.
compare(by, a, b) ==
  CASE by = "score" -> Minus(b.score, a.score)
    [] by = "length" -> Num(Len(a.word) - Len(b.word))
    [] by = "alphabet" -> Num(localeCompare(a.word, b.word))

\* x goes before y: the comparator's result is negative.
Before(by, x, y) == ~compare(by, x, y).nan /\ compare(by, x, y).v < 0

RECURSIVE insert(_, _, _)
\* x put into the sorted list s behind every element it does not go before.
insert(by, s, x) ==
  IF s = <<>> THEN <<x>>
  ELSE IF Before(by, x, s[Len(s)])
       THEN Append(insert(by, SubSeq(s, 1, Len(s) - 1), x), s[Len(s)])
       ELSE Append(s, x)

RECURSIVE sort(_, _)
\* matchedWords.sort(comparator), as a stable insertion sort.
sort(by, s) ==
  IF s = <<>> THEN <<>>
  ELSE insert(by, sort(by, SubSeq(s, 1, Len(s) - 1)), s[Len(s)])

sortWordsByScoreAscending(matchedWords) ==
  LET sorted == sort("score", matchedWords)
  IN [i \in 1..Len(sorted) |-> sorted[Len(sorted) + 1 - i]]

sortWordsByScore(matchedWords) == sort("score", matchedWords)

sortWordsByLength(matchedWords) == sort("length", matchedWords)

sortWordsAlphabetically(matchedWords) == sort("alphabet", matchedWords)

RECURSIVE prefixWhile(_, _, _)
\* The elements of s before the first one, from key index on, for which
\* keep fails: what "matchedWords.length = index; break" leaves.
prefixWhile(s, index, keep) ==
  IF index > Len(s) THEN s
  ELSE IF ~keep[index] THEN SubSeq(s, 1, index - 1)
  ELSE prefixWhile(s, index + 1, keep)

\* removeLowerScores, for a list that is not empty.
removeLowerScores(matchedWords) ==
  prefixWhile(matchedWords, 1,
    [i \in 1..Len(matchedWords) |->
       StrictEquals(matchedWords[i].score, matchedWords[1].score)])

\* removeHigherLengths, for a list that is not empty.
removeHigherLengths(matchedWords) ==
  prefixWhile(matchedWords, 1,
    [i \in 1..Len(matchedWords) |->
       ~(Len(matchedWords[i].word) > Len(matchedWords[1].word))])

\* rankWords(matchedWords), for a list that is not empty: the array as the
\* call leaves it.
rankWords(matchedWords) ==
  LET byScore == removeLowerScores(sortWordsByScore(matchedWords))
  IN IF Len(byScore) > 1
     THEN LET byLength == removeHigherLengths(sortWordsByLength(byScore))
          IN IF Len(byLength) > 1
             THEN sortWordsAlphabetically(byLength)
             ELSE byLength
     ELSE byScore

(***************************************************************************)
(* SpecRank: rankWords on every list of one to MaxMatched scored           *)
(* candidates with integer scores.                                         *)
(***************************************************************************)
RankWords == SeqUpTo({"A", "C"}, 2) \ {<<>>}

RankScores == {Num(n) : n \in 0..2}

InitRank ==
  /\ pc = "call"
  /\ arg \in SeqUpTo([word : RankWords, unusedLetters : {<<>>},
                      score : RankScores], MaxMatched) \ {<<>>}
  /\ res = <<>>
  /\ ControllerIdle

RankWordsCall ==
  /\ pc = "call"
  /\ res' = rankWords(arg)
  /\ pc' = "done"
  /\ UNCHANGED arg
  /\ ControllerUnchanged

NextRank == RankWordsCall

SpecRank == InitRank /\ [][NextRank]_vars

RECURSIVE AlphabeticallyBefore(_, _)
\* a comes strictly before b in ascending string order.
AlphabeticallyBefore(a, b) ==
  IF b = <<>> THEN FALSE
  ELSE IF a = <<>> THEN TRUE
  ELSE IF Head(a) = Head(b) THEN AlphabeticallyBefore(Tail(a), Tail(b))
  ELSE \E i, j \in 1..Len(Collation) :
         i < j /\ Collation[i] = Head(a) /\ Collation[j] = Head(b)

\* The candidates of list s with the maximum score, and among them those
\* with the minimum word length.
TopScored(s) ==
  {c \in Range(s) : \A d \in Range(s) : d.score.v <= c.score.v}

ShortestTopScored(s) ==
  {c \in TopScored(s) : \A d \in TopScored(s) : Len(c.word) <= Len(d.word)}

(***************************************************************************)
(* C2: for a non-empty list of candidates with integer scores, after       *)
(* rankWords the element at index 0 has the maximum score of the original  *)
(* list, among those the minimum word length, and among those its word is  *)
(* the first in ascending string order.                                    *)
(***************************************************************************)
C2_WinnerIsMaxScoreMinLengthFirstWord ==
  pc = "done" =>
    /\ Len(res) >= 1
    /\ res[1] \in ShortestTopScored(arg)
    /\ \A c \in ShortestTopScored(arg) : ~AlphabeticallyBefore(c.word, res[1].word)

\* A lower score is passed over, and of two words with the top score and
\* the same length the later one, which came first in the list.
C2_Witness ==
  /\ pc = "done"
  /\ arg = <<[word |-> <<"C", "A">>, unusedLetters |-> <<>>, score |-> Num(2)],
             [word |-> <<"A", "C">>, unusedLetters |-> <<>>, score |-> Num(2)],
             [word |-> <<"A">>, unusedLetters |-> <<>>, score |-> Num(1)]>>
  /\ res[1].word = <<"A", "C">>

(***************************************************************************)
(* buildWords and the round controller (getUserInputs).                    *)
(***************************************************************************)
inputLettersSpliced(letters, match) == match.input

\* input.letters after matchWord(spreadWord, spreadInput): matchWord splices
\* spreadInput, the copy [...input.letters], and input.letters stays whole.
inputLetters(letters, match) == letters

RECURSIVE buildWordsFrom(_, _, _, _)
\* The for-of loop of buildWords over this.words from position w on, with
\* input.letters as it is and the matches pushed so far: the matchedWords
\* returned and the input.letters left.
buildWordsFrom(dict, letters, w, matchedWords) ==
  IF w > Len(dict) THEN [matchedWords |-> matchedWords, letters |-> letters]
  ELSE LET databaseWord == formatWord(dict[w])
           match == matchWord(databaseWord, letters)
       IN buildWordsFrom(dict, inputLetters(letters, match), w + 1,
            IF match.check
            THEN Append(matchedWords,
                        [word |-> databaseWord,
                         unusedLetters |-> formatUnusedLetters(match.unused.letters)])
            ELSE matchedWords)

\* buildWords(input) over the dictionary dict: the list it returns.
buildWords(dict, letters) == buildWordsFrom(dict, letters, 1, <<>>).matchedWords

\* What a callback printed: the kind of message, and for a winner its word,
\* score and unused letters, for no-words the letters left over.
Printed(kind, word, sc, letters) ==
  [kind |-> kind, word |-> word, score |-> sc, letters |-> letters]

NoOutput == Printed("none", <<>>, Num(0), <<>>)

askReplacing(pending, cb) == cb

askIgnored(pending, cb) == pending

inputUnformatted(previous, letters) == [letters |-> letters]

\* rl.question(query, cb): ignored while a question is pending.
ask(pending, cb) == IF pending # "none" THEN pending ELSE cb

\* A call of one of the class's functions, with the length of the list or
\* string it was handed.
Called(fn, size) == [fn |-> fn, query |-> "none", size |-> size, pending |-> "none"]

\* A call of rl.question for the letters or the bonus query, with the
\* question that was pending when it was made.
Asked(query, pending) == [fn |-> "question", query |-> query, size |-> 0, pending |-> pending]

\* this.words as buildWords leaves it: the loop formats { letters: word }, an
\* object of its own for each word, and assigns to no element of this.words.
thisWordsFormattedInPlace(dict) == [w \in 1..Len(dict) |-> formatWord(dict[w])]

thisWords(dict) == dict

\* const input = { letters }; this.formatWord(input, 'letters'): the object
\* of this callback, whatever the object of the callback before (previous).
inputCarriedOver(previous, letters) ==
  [letters |-> formatWord(previous.letters \o letters)]

inputOf(previous, letters) == [letters |-> formatWord(letters)]

anyMatchedOrNone(matchedWords) == Len(matchedWords) >= 0

\* matchedWords.length > 0
anyMatched(matchedWords) == Len(matchedWords) > 0

\* The body of the bonus callback up to its last statement, for the input
\* letters and the typed position: what it prints, the matchedWords,
\* input.letters and this.words it leaves, the calls it makes, and whether
\* printWinner threw on an emptied list.
playRound(dict, letters, position) ==
  IF checkBonusPosition(position)
  THEN LET build == buildWordsFrom(dict, letters, 1, <<>>)
           matchedWords == build.matchedWords
           built == <<Called("buildWords", Len(letters))>>
       IN IF anyMatched(matchedWords)
          THEN LET ranked == rankWords(scoreWords(matchedWords,
                                                  removeWhitespaces(position)))
                   run == built \o <<Called("scoreWords", Len(matchedWords)),
                                     Called("rankWords", Len(matchedWords)),
                                     Called("printWinner", Len(ranked))>>
               IN IF Len(ranked) = 0
                  THEN [output |-> Printed("TypeError", <<>>, Num(0), <<>>),
                        matchedWords |-> ranked, letters |-> build.letters,
                        words |-> thisWords(dict), calls |-> run, threw |-> TRUE]
                  ELSE [output |-> Printed("winner", ranked[1].word, ranked[1].score,
                                           ranked[1].unusedLetters),
                        matchedWords |-> ranked, letters |-> build.letters,
                        words |-> thisWords(dict), calls |-> run, threw |-> FALSE]
          ELSE [output |-> Printed("noWords", <<>>, Num(0),
                                   formatUnusedLetters(build.letters)),
                matchedWords |-> matchedWords,
                letters |-> formatUnusedLetters(build.letters),
                words |-> thisWords(dict),
                calls |-> built \o <<Called("formatUnusedLetters", Len(build.letters)),
                                     Called("printNoWords", 0)>>,
                threw |-> FALSE]
  ELSE [output |-> Printed("bonusHint", <<>>, Num(0), <<>>),
        matchedWords |-> <<>>, letters |-> letters, words |-> dict,
        calls |-> <<Called("printBonusHint", 0)>>, threw |-> FALSE]

\* The raw words a dictionary is made of, the lines typed at the letters
\* prompt and the lines typed at the bonus prompt.
DictWords == {<<"a">>, <<"a", "t">>, <<"t", "a">>, <<"×">>, <<"1">>}

LetterLines ==
  SeqUpTo({"a", "t"}, MaxLetters) \cup {<<"×">>, <<"a", "×">>, <<"1", Space>>}

BonusLines ==
  {<<>>, <<"0">>, <<"1">>, <<Space, "2">>, <<"a">>, <<"-", "1">>, <<"1", ".", "2">>}

Init ==
  /\ pc = "constructed"
  /\ arg = [typed |-> <<>>, letters |-> <<>>, position |-> <<>>]
  /\ res = <<>>
  /\ words \in SeqUpTo(DictWords, MaxDict)
  /\ question = "none"
  /\ input = [letters |-> <<>>]
  /\ output = NoOutput
  /\ crashed = FALSE
  /\ calls = <<>>

\* start(): printTitle, then getUserInputs asks for the letters.
Start ==
  /\ pc = "constructed"
  /\ pc' = "started"
  /\ question' = ask(question, "letters")
  /\ calls' = <<Asked("letters", question)>>
  /\ UNCHANGED <<arg, res, words, input, output, crashed>>

\* A line arrives while the letters question is pending: readline clears the
\* pending question and runs the letters callback, whose last statement is
\* getUserInputs() on either branch.
LettersLine ==
  /\ question = "letters"
  /\ ~crashed
  /\ \E letters \in LetterLines :
       \E formatted \in {inputOf(input, letters)} :
          /\ input' = formatted
          /\ arg' = [typed |-> letters, letters |-> <<>>, position |-> <<>>]
          /\ IF Len(formatted.letters) > 0
             THEN /\ output' = NoOutput
                  /\ question' = ask(ask("none", "bonus"), "letters")
                  /\ calls' = <<Asked("bonus", "none"),
                                Asked("letters", ask("none", "bonus"))>>
             ELSE /\ output' = Printed("lettersHint", <<>>, Num(0), <<>>)
                  /\ question' = ask("none", "letters")
                  /\ calls' = <<Called("printLettersHint", 0),
                                Asked("letters", "none")>>
  /\ pc' = "lettersCallback"
  /\ res' = <<>>
  /\ UNCHANGED <<words, crashed>>

\* A line arrives while the bonus question is pending: readline clears the
\* pending question and runs the bonus callback, whose last statement is
\* getUserInputs().
BonusLine ==
  /\ question = "bonus"
  /\ ~crashed
  /\ \E position \in BonusLines :
       \E round \in {playRound(words, input.letters, position)} :
          /\ arg' = [typed |-> arg.typed, letters |-> input.letters,
                     position |-> position]
          /\ res' = round.matchedWords
          /\ input' = [letters |-> round.letters]
          /\ words' = round.words
          /\ output' = round.output
          /\ crashed' = round.threw
          /\ question' = IF round.threw THEN "none" ELSE ask("none", "letters")
          /\ calls' = IF round.threw THEN round.calls
                      ELSE Append(round.calls, Asked("letters", "none"))
  /\ pc' = "bonusCallback"

Next == Start \/ LettersLine \/ BonusLine

Spec == Init /\ [][Next]_vars

\* Some word of the dictionary can be built from the letters: every letter
\* of its canonical form occurs in them at least as often.
SomeWordMatches(dict, letters) ==
  \E w \in 1..Len(dict) : Contained(formatWord(dict[w]), letters)

\* The last callback was a bonus callback that accepted the typed position.
RoundPlayed == pc = "bonusCallback" /\ checkBonusPosition(arg.position)

(***************************************************************************)
(* C4: in a round with non-empty normalized letters and an accepted bonus  *)
(* position, a winner is printed if and only if at least one dictionary    *)
(* word matches the letters; otherwise the no-word outcome is printed,     *)
(* showing all the normalized input letters as the letters left over.      *)
(***************************************************************************)
C4_WinnerIffSomeWordMatches ==
  RoundPlayed =>
    IF SomeWordMatches(words, arg.letters)
    THEN output.kind = "winner"
    ELSE /\ output.kind = "noWords"
         /\ Filter(output.letters, AllChars \ {Space}) = arg.letters

RECURSIVE Orderings(_)
\* The orderings of a list: any element first, then an ordering of the rest.
Orderings(s) ==
  IF s = <<>> THEN {<<>>}
  ELSE UNION {{<<s[i]>> \o o : o \in Orderings(Remove(s, i))} : i \in 1..Len(s)}

(***************************************************************************)
(* C9: the winner is independent of order: for fixed letters and bonus     *)
(* position, every permutation of the dictionary yields the same winning   *)
(* word, score and unused letters.                                         *)
(***************************************************************************)
C9_WinnerIndependentOfDictionaryOrder ==
  RoundPlayed =>
    \A dict \in Orderings(words) :
      playRound(dict, arg.letters, arg.position).output = output

(***************************************************************************)
(* What the callbacks of a round call.                                     *)
(***************************************************************************)
PrintFns == {"printLettersHint", "printBonusHint", "printNoWords", "printWinner"}

\* The positions in the call log of the calls of a function in fns.
CallsOf(fns) == {i \in 1..Len(calls) : calls[i].fn \in fns}

\* The last callback ended a round: a letters callback that found no usable
\* letter, or a bonus callback.
RoundEnded ==
  \/ pc = "lettersCallback" /\ input.letters = <<>>
  \/ pc = "bonusCallback"

(***************************************************************************)
(* C12: one round is fully processed before the next prompt: a callback    *)
(* requests no question while the round's bonus question is unanswered,    *)
(* and requests the letters question only after it has printed the round's *)
(* outcome.                                                                *)
(***************************************************************************)
C12_NextPromptOnlyAfterTheOutcome ==
  pc \in {"lettersCallback", "bonusCallback"} =>
    \A i \in CallsOf({"question"}) :
      /\ calls[i].pending # "bonus"
      /\ calls[i].query = "letters" =>
           \E j \in CallsOf(PrintFns) : j < i

(***************************************************************************)
(* C13: the dictionary is never modified: no step of the round controller  *)
(* changes this.words.                                                     *)
(***************************************************************************)
C13_DictionaryNeverModified == [][words' = words]_vars

\* A round that went through buildWords, scoreWords and rankWords over a
\* dictionary whose words are not in canonical form.
C13_Witness ==
  /\ pc = "bonusCallback"
  /\ output.kind = "winner"
  /\ words = <<<<"t", "a">>, <<"a">>>>

(***************************************************************************)
(* C14: no state persists between rounds: whatever the rounds before, the  *)
(* input letters are the normalized line typed in this round, the letters  *)
(* hint is printed exactly when they are empty, and what the bonus         *)
(* callback prints is what a round over the dictionary gives for this      *)
(* round's typed letters and bonus text.                                   *)
(***************************************************************************)
C14_OutcomeIsAFunctionOfTheRoundsInput ==
  /\ pc = "lettersCallback" =>
       /\ input.letters = formatWord(arg.typed)
       /\ output.kind = "lettersHint" <=> formatWord(arg.typed) = <<>>
       /\ output.kind \in {"lettersHint", "none"}
  /\ pc = "bonusCallback" =>
       output = playRound(words, formatWord(arg.typed), arg.position).output

\* A round with a winner for the typed letters "at".
C14_Witness ==
  /\ pc = "bonusCallback"
  /\ output.kind = "winner"
  /\ arg.typed = <<"a", "t">>
  /\ \E i \in CallsOf({"buildWords"}) : calls[i].size = 2

(***************************************************************************)
(* C15: every round produces exactly one outcome: when a round has ended,  *)
(* exactly one of the letters hint, the bonus hint, the no-word message    *)
(* and the winner has been printed, and nothing was left half printed.     *)
(***************************************************************************)
C15_ExactlyOneOutcome ==
  RoundEnded =>
    /\ output.kind \in {"lettersHint", "bonusHint", "noWords", "winner"}
    /\ Cardinality(CallsOf(PrintFns)) = 1
    /\ ~crashed

(***************************************************************************)
(* C16: a rejected bonus text (empty, negative, not a number) ends the     *)
(* round normally: only the bonus hint is printed, buildWords, scoreWords  *)
(* and rankWords are not run, no exception is raised and the letters       *)
(* question is asked again.                                                *)
(***************************************************************************)
RejectedLines == {<<>>, <<"a">>, <<"-", "1">>}

C16_RejectedBonusOnlyPrintsTheHint ==
  (pc = "bonusCallback" /\ arg.position \in RejectedLines) =>
    /\ output.kind = "bonusHint"
    /\ \A i \in CallsOf(PrintFns) : calls[i].fn = "printBonusHint"
    /\ CallsOf({"buildWords", "scoreWords", "rankWords"}) = {}
    /\ ~crashed
    /\ question = "letters"
    /\ calls[Len(calls)] = Asked("letters", "none")

\* A negative bonus position has been typed and the hint printed.
C16_Witness ==
  /\ pc = "bonusCallback"
  /\ arg.position = <<"-", "1">>
  /\ output.kind = "bonusHint"
  /\ question = "letters"

(***************************************************************************)
(* C17: scoreWords and rankWords are only ever called with a list of       *)
(* matched words that is not empty.                                        *)
(***************************************************************************)
C17_RankedListNeverEmpty ==
  \A i \in CallsOf({"scoreWords", "rankWords"}) : calls[i].size > 0

\* rankWords has been called in a round over a dictionary that also has a
\* word no letters match.
C17_Witness ==
  /\ pc = "bonusCallback"
  /\ CallsOf({"rankWords"}) # {}
  /\ <<"1">> \in Range(words)

(***************************************************************************)
(* C18: a matched word with a letter the score table lacks makes the round *)
(* a fatal error: no winner is printed.                                    *)
(***************************************************************************)
SomeMatchUnscored ==
  \E m \in Range(buildWords(words, arg.letters)) :
    ~(Range(m.word) \subseteq DOMAIN score)

C18_UnscoredLetterIsFatal ==
  (RoundPlayed /\ SomeMatchUnscored) => (output.kind # "winner" /\ crashed)

(***************************************************************************)
(* C19: match success does not depend on the order of the input letters:   *)
(* matchWord gives every permutation of the input the same check.          *)
(***************************************************************************)
C19_CheckIndependentOfInputOrder ==
  pc = "done" =>
    \A l \in Orderings(arg.input) : matchWord(arg.word, l).check = res.check

\* A match whose input holds the word's letters in another order, with a
\* letter between them.
C19_Witness ==
  /\ pc = "done"
  /\ res.check
  /\ arg.word = <<"C", "A">>
  /\ arg.input = <<"A", "T", "C">>

(***************************************************************************)
(* The earlier normalizer (src/unnamed/part_000): formatWord(letters)      *)
(* returns the string it builds; its uppercase, removeWhitespaces,         *)
(* removeNumbers and removeAccentuation do to the string what the ones     *)
(* above do to word[key].                                                  *)
(***************************************************************************)
\* The model's members of \w and of \s.
WordChars == AsciiLower \cup AsciiUpper \cup Digits \cup {"_"}

WhiteSpace == {Space}

\* letters.replace(/[^\w\s]+/g, "")
removeSpecialCharactersOfLetters(s) == Filter(s, WordChars \cup WhiteSpace)

\* formatWord(letters)
formatWordOfLetters(s) ==
  removeSpecialCharactersOfLetters(
    removeAccentuation(removeNumbers(removeWhitespaces(uppercase(s)))))

(***************************************************************************)
(* SpecVariants: both normalizers on every raw text of at most MaxText     *)
(* characters.                                                             *)
(***************************************************************************)
VariantChars == {Space, "1", "!", "_", "a", "A", "é", "É", "ñ", "×", "ß"}

InitVariants ==
  /\ pc = "call"
  /\ arg \in SeqUpTo(VariantChars, MaxText)
  /\ res = [inPlace |-> <<>>, ofLetters |-> <<>>]
  /\ ControllerIdle

FormatWordBothCall ==
  /\ pc = "call"
  /\ res' = [inPlace |-> formatWord(arg), ofLetters |-> formatWordOfLetters(arg)]
  /\ pc' = "done"
  /\ UNCHANGED arg
  /\ ControllerUnchanged

NextVariants == FormatWordBothCall

SpecVariants == InitVariants /\ [][NextVariants]_vars

(***************************************************************************)
(* C20: the two normalizers agree: for every text, formatWord(letters) and *)
(* the in-place formatWord(word, key) produce the same canonical word.     *)
(***************************************************************************)
C20_VariantsAgree == pc = "done" => res.inPlace = res.ofLetters

(***************************************************************************)
(* C21: lines are consumed in strict alternation: after a letters line     *)
(* with a usable letter, the one question pending is the bonus question,   *)
(* and the next line goes to the bonus callback for those same letters,    *)
(* never to a letters callback, although getUserInputs has asked for       *)
(* letters in between.                                                     *)
(***************************************************************************)
C21_BonusLineFollowsLettersLine ==
  [][(pc = "lettersCallback" /\ input.letters # <<>>) =>
       /\ question = "bonus"
       /\ calls[Len(calls)] = Asked("letters", "bonus")
       /\ pc' = "bonusCallback"
       /\ arg'.typed = arg.typed
       /\ arg'.letters = input.letters]_vars

\* The line typed after the letters "t" has reached the bonus callback.
C21_Witness ==
  /\ pc = "bonusCallback"
  /\ arg.typed = <<"t">>
  /\ arg.letters = <<"T">>
  /\ arg.position = <<"0">>

(***************************************************************************)
(* C22: the game loops forever: after every round outcome that does not    *)
(* throw, the letters question is pending, so the controller is never left *)
(* with no question to read a line for.                                    *)
(***************************************************************************)
C22_LettersQuestionAfterEveryOutcome ==
  /\ (RoundEnded /\ ~crashed) =>
       /\ question = "letters"
       /\ \E i \in CallsOf(PrintFns) : i < Len(calls)
  /\ (pc # "constructed" /\ ~crashed) => question # "none"

\* A second round has ended with the no-word outcome and asks for letters.
C22_Witness ==
  /\ pc = "bonusCallback"
  /\ output.kind = "noWords"
  /\ question = "letters"
  /\ words = <<>>

(***************************************************************************)
(* C23: when the typed letters normalize to the empty word, the round ends *)
(* with the letters hint only: the bonus question is not asked, the next   *)
(* question is the letters question, and buildWords never runs on an empty *)
(* input.                                                                  *)
(***************************************************************************)
C23_EmptyLettersOnlyPrintTheHint ==
  /\ (pc = "lettersCallback" /\ formatWord(arg.typed) = <<>>) =>
       /\ output.kind = "lettersHint"
       /\ calls = <<Called("printLettersHint", 0), Asked("letters", "none")>>
       /\ question = "letters"
  /\ \A i \in CallsOf({"buildWords"}) : calls[i].size > 0

\* A line of a digit and a space has been answered with the letters hint.
C23_Witness ==
  /\ pc = "lettersCallback"
  /\ arg.typed = <<"1", Space>>
  /\ output.kind = "lettersHint"

(***************************************************************************)
(* SpecBuild: buildWords on every dictionary of at most MaxDict raw words  *)
(* and every non-empty canonical input of at most MaxInput letters.        *)
(***************************************************************************)
InitBuild ==
  /\ pc = "call"
  /\ arg \in [words : SeqUpTo(DictWords, MaxDict),
              input : [letters : SeqUpTo({"A", "T"}, MaxInput) \ {<<>>}]]
  /\ res = [matchedWords |-> <<>>, letters |-> <<>>]
  /\ ControllerIdle

BuildWordsCall ==
  /\ pc = "call"
  /\ res' = buildWordsFrom(arg.words, arg.input.letters, 1, <<>>)
  /\ pc' = "done"
  /\ UNCHANGED arg
  /\ ControllerUnchanged

NextBuild == BuildWordsCall

SpecBuild == InitBuild /\ [][NextBuild]_vars

RECURSIVE CandidatesFrom(_, _, _)
\* One candidate for each word of dict, from position w on, that matchWord
\* matches against the whole of letters, in the order of dict.
CandidatesFrom(dict, letters, w) ==
  IF w > Len(dict) THEN <<>>
  ELSE LET alone == matchWord(formatWord(dict[w]), letters)
       IN (IF alone.check
           THEN <<[word |-> formatWord(dict[w]),
                   unusedLetters |-> join(alone.unused.letters)]>>
           ELSE <<>>) \o CandidatesFrom(dict, letters, w + 1)

(***************************************************************************)
(* C24: buildWords leaves input.letters unchanged and matches every        *)
(* dictionary word against the whole input: the list it returns holds, in  *)
(* dictionary order, one candidate for each word that matches when it is   *)
(* matched alone, with the unused letters of that match.                   *)
(***************************************************************************)
C24_BuildWordsLeavesInputAndMatchesEachWordAlone ==
  pc = "done" =>
    /\ res.letters = arg.input.letters
    /\ res.matchedWords = CandidatesFrom(arg.words, arg.input.letters, 1)

\* Two words match, the second one needing a letter that lies behind the
\* point where the first match cut its copy of the input.
C24_Witness ==
  /\ pc = "done"
  /\ arg.words = <<<<"a">>, <<"t", "a">>>>
  /\ arg.input.letters = <<"A", "T">>
  /\ Len(res.matchedWords) = 2
  /\ res.matchedWords[1].unusedLetters = <<"T">>

====
